---- MODULE Spec2Model ----
(***************************************************************************)
(* Model of the transaction engine of src/src/engine/mod.rs: the ledger    *)
(* map (an IndexMap from client id to AccountData), the dispatcher         *)
(* process_one and the five operation handlers.  Decimal amounts are       *)
(* integers of one fixed scale inside a bounded representable range;       *)
(* checked_add / checked_sub yield None when the result leaves that range. *)
(***************************************************************************)
EXTENDS Integers, Sequences, FiniteSets, TLC

\* ---------------------------------------------------------------- bounds
MaxClient == 2
MaxTx == 2
MaxDecimal == 2
MaxRecords == 5

ClientIds == 1..MaxClient
TransactionIds == 1..MaxTx

\* Option<T>: None is the empty sequence, Some(v) the one-element sequence.
None == << >>
Some(v) == << v >>
is_some(o) == Len(o) = 1
unwrap(o) == o[1]

\* Decimal: the representable range is symmetric around zero.
DecimalRange == (0 - MaxDecimal)..MaxDecimal
ZERO == 0

checked_add(a, b) == IF (a + b) \in DecimalRange THEN Some(a + b) ELSE None
checked_sub(a, b) == IF (a - b) \in DecimalRange THEN Some(a - b) ELSE None

OperationType == {"Deposit", "Withdrawal", "Dispute", "Resolve", "Chargeback"}

\* The amounts an input record may carry: absent, negative, zero, positive.
InputAmounts == {None} \cup {Some(v) : v \in (0 - 1)..MaxDecimal}

Transaction ==
    [operation : {"Deposit", "Withdrawal"}, client_id : ClientIds,
     id : TransactionIds, amount : InputAmounts]
    \cup [operation : {"Dispute", "Resolve", "Chargeback"}, client_id : ClientIds,
          id : TransactionIds, amount : {None}]

\* AccountData::default()
AccountDataDefault == [locked |-> FALSE, available |-> ZERO, held |-> ZERO,
                       transactions |-> << >>, under_dispute |-> {}]

\* ProcessingError values; every variant is a record of the same shape, the
\* fields a variant does not carry are 0 / "-".
NoError == [kind |-> "Ok", tx |-> 0, ref |-> 0, client |-> 0, op |-> "-"]
NegativeAmount == [kind |-> "NegativeAmount", tx |-> 0, ref |-> 0, client |-> 0, op |-> "-"]
Overflow(id) == [kind |-> "Overflow", tx |-> id, ref |-> 0, client |-> 0, op |-> "-"]
Underflow(id) == [kind |-> "Underflow", tx |-> id, ref |-> 0, client |-> 0, op |-> "-"]
DuplicatedTransaction(id, c) == [kind |-> "DuplicatedTransaction", tx |-> id, ref |-> 0, client |-> c, op |-> "-"]
DuplicatedDispute(id, r, c) == [kind |-> "DuplicatedDispute", tx |-> id, ref |-> r, client |-> c, op |-> "-"]
AccountLocked(c) == [kind |-> "AccountLocked", tx |-> 0, ref |-> 0, client |-> c, op |-> "-"]
MissingAmount(id) == [kind |-> "MissingAmount", tx |-> id, ref |-> 0, client |-> 0, op |-> "-"]
InsufficientFounds(id, c) == [kind |-> "InsufficientFounds", tx |-> id, ref |-> 0, client |-> c, op |-> "-"]
MissingTransaction(id) == [kind |-> "MissingTransaction", tx |-> id, ref |-> 0, client |-> 0, op |-> "-"]
InvalidOperationUnderDispute(o, id) == [kind |-> "InvalidOperationUnderDispute", tx |-> id, ref |-> 0, client |-> 0, op |-> o]
IncorrectResolve(o, id) == [kind |-> "IncorrectResolve", tx |-> id, ref |-> 0, client |-> 0, op |-> o]
IncorrectChargeback(o, id) == [kind |-> "IncorrectChargeback", tx |-> id, ref |-> 0, client |-> 0, op |-> o]

\* What a handler hands back: its Result and the account as it left it.
Ret(e, account) == [result |-> e, account |-> account]

\* HashMap::insert: the new value replaces any value stored under the key.
insert(map, k, v) == (k :> v) @@ map

\* ------------------------------------------------------------- handlers
operation_deposit_store_first(account, transaction) ==
    LET stored == [account EXCEPT
                     !.transactions = insert(@, transaction.id, transaction)]
    IN IF transaction.id \in DOMAIN account.transactions
       THEN Ret(DuplicatedTransaction(transaction.id, transaction.client_id), account)
       ELSE IF ~is_some(transaction.amount)
       THEN Ret(MissingAmount(transaction.id), stored)
       ELSE IF unwrap(transaction.amount) < ZERO
       THEN Ret(NegativeAmount, stored)
       ELSE IF ~is_some(checked_add(account.available, unwrap(transaction.amount)))
       THEN Ret(Overflow(transaction.id), stored)
       ELSE Ret(NoError,
                [stored EXCEPT
                   !.available = unwrap(checked_add(@, unwrap(transaction.amount)))])

operation_deposit_forget(account, transaction) ==
    IF transaction.id \in DOMAIN account.transactions
    THEN Ret(DuplicatedTransaction(transaction.id, transaction.client_id), account)
    ELSE IF ~is_some(transaction.amount)
    THEN Ret(MissingAmount(transaction.id), account)
    ELSE IF unwrap(transaction.amount) < ZERO
    THEN Ret(NegativeAmount, account)
    ELSE IF ~is_some(checked_add(account.available, unwrap(transaction.amount)))
    THEN Ret(Overflow(transaction.id), account)
    ELSE Ret(NoError,
             [account EXCEPT
                !.available = unwrap(checked_add(@, unwrap(transaction.amount)))])

operation_deposit_accept_missing(account, transaction) ==
    IF transaction.id \in DOMAIN account.transactions
    THEN Ret(DuplicatedTransaction(transaction.id, transaction.client_id), account)
    ELSE IF ~is_some(transaction.amount)
    THEN Ret(NoError,
             [account EXCEPT !.transactions = insert(@, transaction.id, transaction)])
    ELSE IF unwrap(transaction.amount) < ZERO
    THEN Ret(NegativeAmount, account)
    ELSE IF ~is_some(checked_add(account.available, unwrap(transaction.amount)))
    THEN Ret(Overflow(transaction.id), account)
    ELSE Ret(NoError,
             [account EXCEPT
                !.available = unwrap(checked_add(@, unwrap(transaction.amount))),
                !.transactions = insert(@, transaction.id, transaction)])

operation_deposit(account, transaction) ==
    IF transaction.id \in DOMAIN account.transactions
    THEN Ret(DuplicatedTransaction(transaction.id, transaction.client_id), account)
    ELSE IF ~is_some(transaction.amount)
    THEN Ret(MissingAmount(transaction.id), account)
    ELSE LET amount == unwrap(transaction.amount) IN
         IF amount < ZERO
         THEN Ret(NegativeAmount, account)
         ELSE LET sum == checked_add(account.available, amount) IN
              IF ~is_some(sum)
              THEN Ret(Overflow(transaction.id), account)
              ELSE Ret(NoError,
                       [account EXCEPT
                          !.available = unwrap(sum),
                          !.transactions = insert(@, transaction.id, transaction)])

withdraw_funds_unchecked(account, transaction, amount) ==
    LET diff == checked_sub(account.available, amount) IN
    IF ~is_some(diff)
    THEN Ret(Underflow(transaction.id), account)
    ELSE Ret(NoError,
             [account EXCEPT
                !.available = unwrap(diff),
                !.transactions = insert(@, transaction.id, transaction)])

withdraw_funds_off_by_one(account, transaction, amount) ==
    IF account.available <= amount
    THEN Ret(InsufficientFounds(transaction.id, transaction.client_id), account)
    ELSE withdraw_funds_unchecked(account, transaction, amount)

withdraw_funds_reserve(account, transaction, amount) ==
    IF account.available < amount
    THEN Ret(InsufficientFounds(transaction.id, transaction.client_id),
             [account EXCEPT !.transactions = insert(@, transaction.id, transaction)])
    ELSE withdraw_funds_unchecked(account, transaction, amount)

\* operation_withdraw once the amount is known: the funds check, the checked
\* subtraction and the insertion into the store.
withdraw_funds(account, transaction, amount) ==
    IF account.available < amount
    THEN Ret(InsufficientFounds(transaction.id, transaction.client_id), account)
    ELSE LET diff == checked_sub(account.available, amount) IN
         IF ~is_some(diff)
         THEN Ret(Underflow(transaction.id), account)
         ELSE Ret(NoError,
                  [account EXCEPT
                     !.available = unwrap(diff),
                     !.transactions = insert(@, transaction.id, transaction)])

operation_withdraw_no_dedup(account, transaction) ==
    IF ~is_some(transaction.amount)
    THEN Ret(MissingAmount(transaction.id), account)
    ELSE IF unwrap(transaction.amount) < ZERO
    THEN Ret(NegativeAmount, account)
    ELSE withdraw_funds(account, transaction, unwrap(transaction.amount))

operation_withdraw_amount_first(account, transaction) ==
    IF ~is_some(transaction.amount)
    THEN Ret(MissingAmount(transaction.id), account)
    ELSE IF unwrap(transaction.amount) < ZERO
    THEN Ret(NegativeAmount, account)
    ELSE IF transaction.id \in DOMAIN account.transactions
    THEN Ret(DuplicatedTransaction(transaction.id, transaction.client_id), account)
    ELSE withdraw_funds(account, transaction, unwrap(transaction.amount))

operation_withdraw(account, transaction) ==
    IF transaction.id \in DOMAIN account.transactions
    THEN Ret(DuplicatedTransaction(transaction.id, transaction.client_id), account)
    ELSE IF ~is_some(transaction.amount)
    THEN Ret(MissingAmount(transaction.id), account)
    ELSE LET amount == unwrap(transaction.amount) IN
         IF amount < ZERO
         THEN Ret(NegativeAmount, account)
         ELSE withdraw_funds(account, transaction, amount)

dispute_deposit_partial(account, transaction, disputed_amount) ==
    LET new_available == checked_sub(account.available, disputed_amount) IN
    IF ~is_some(new_available)
    THEN Ret(Underflow(transaction.id), account)
    ELSE LET moved == [account EXCEPT !.available = unwrap(new_available)]
             new_held == checked_add(account.held, disputed_amount)
         IN IF ~is_some(new_held)
            THEN Ret(Overflow(transaction.id), moved)
            ELSE Ret(NoError, [moved EXCEPT !.held = unwrap(new_held)])

dispute_deposit_funds_checked(account, transaction, disputed_amount) ==
    LET new_available == checked_sub(account.available, disputed_amount)
        new_held == checked_add(account.held, disputed_amount)
    IN IF account.available < disputed_amount \/ ~is_some(new_available)
       THEN Ret(Underflow(transaction.id), account)
       ELSE IF ~is_some(new_held)
       THEN Ret(Overflow(transaction.id), account)
       ELSE Ret(NoError,
                [account EXCEPT
                   !.available = unwrap(new_available),
                   !.held = unwrap(new_held)])

dispute_deposit_unchecked_sub(account, transaction, disputed_amount) ==
    LET new_held == checked_add(account.held, disputed_amount)
    IN IF ~is_some(new_held)
       THEN Ret(Overflow(transaction.id), account)
       ELSE Ret(NoError,
                [account EXCEPT
                   !.available = @ - disputed_amount,
                   !.held = unwrap(new_held)])

\* The Deposit arm of the match of operation_dispute: both checked results are
\* computed before either field is assigned.
dispute_deposit(account, transaction, disputed_amount) ==
    LET new_available == checked_sub(account.available, disputed_amount)
        new_held == checked_add(account.held, disputed_amount)
    IN IF ~is_some(new_available)
       THEN Ret(Underflow(transaction.id), account)
       ELSE IF ~is_some(new_held)
       THEN Ret(Overflow(transaction.id), account)
       ELSE Ret(NoError,
                [account EXCEPT
                   !.available = unwrap(new_available),
                   !.held = unwrap(new_held)])

dispute_withdrawal_no_hold(account, transaction, disputed_amount) ==
    Ret(NoError, account)

\* The Withdrawal arm of the match of operation_dispute.
dispute_withdrawal(account, transaction, disputed_amount) ==
    LET new_held == checked_add(account.held, disputed_amount)
    IN IF ~is_some(new_held)
       THEN Ret(Overflow(transaction.id), account)
       ELSE Ret(NoError, [account EXCEPT !.held = unwrap(new_held)])

dispute_hold_unmarked(account, transaction, disputed_transaction) ==
    IF disputed_transaction.operation = "Deposit"
    THEN dispute_deposit(account, transaction, unwrap(disputed_transaction.amount))
    ELSE dispute_withdrawal(account, transaction, unwrap(disputed_transaction.amount))

\* operation_dispute once the referenced transaction is known not to be under
\* dispute: its amount, the match on its operation, the insertion into
\* under_dispute.
dispute_hold(account, transaction, disputed_transaction) ==
    IF ~is_some(disputed_transaction.amount)
    THEN Ret(MissingAmount(transaction.id), account)
    ELSE LET disputed_amount == unwrap(disputed_transaction.amount)
             r == CASE disputed_transaction.operation = "Deposit" ->
                         dispute_deposit(account, transaction, disputed_amount)
                    [] disputed_transaction.operation = "Withdrawal" ->
                         dispute_withdrawal(account, transaction, disputed_amount)
                    [] OTHER ->
                         Ret(InvalidOperationUnderDispute(transaction.operation,
                                                          transaction.id), account)
         IN IF r.result # NoError
            THEN r
            ELSE Ret(NoError,
                     [r.account EXCEPT
                        !.under_dispute = @ \cup {disputed_transaction.id}])

operation_dispute_mark_first(account, transaction) ==
    IF transaction.id \notin DOMAIN account.transactions
    THEN Ret(MissingTransaction(transaction.id),
             [account EXCEPT !.under_dispute = @ \cup {transaction.id}])
    ELSE IF account.transactions[transaction.id].id \in account.under_dispute
    THEN Ret(DuplicatedDispute(transaction.id, account.transactions[transaction.id].id,
                               transaction.client_id), account)
    ELSE dispute_hold(account, transaction, account.transactions[transaction.id])

operation_dispute_twice(account, transaction) ==
    IF transaction.id \notin DOMAIN account.transactions
    THEN Ret(MissingTransaction(transaction.id), account)
    ELSE dispute_hold(account, transaction, account.transactions[transaction.id])

operation_dispute(account, transaction) ==
    IF transaction.id \notin DOMAIN account.transactions
    THEN Ret(MissingTransaction(transaction.id), account)
    ELSE LET disputed_transaction == account.transactions[transaction.id] IN
         IF disputed_transaction.id \in account.under_dispute
         THEN Ret(DuplicatedDispute(transaction.id, disputed_transaction.id,
                                    transaction.client_id), account)
         ELSE dispute_hold(account, transaction, disputed_transaction)

resolve_release_keep_held(account, transaction, disputed_transaction) ==
    IF ~is_some(disputed_transaction.amount)
    THEN Ret(MissingAmount(transaction.id), account)
    ELSE LET new_available == checked_add(account.available,
                                          unwrap(disputed_transaction.amount))
         IN IF ~is_some(new_available)
            THEN Ret(Overflow(transaction.id), account)
            ELSE Ret(NoError,
                     [account EXCEPT
                        !.available = unwrap(new_available),
                        !.under_dispute = @ \ {disputed_transaction.id}])

resolve_release_by_kind(account, transaction, disputed_transaction) ==
    LET disputed_amount == unwrap(disputed_transaction.amount)
        new_available == IF disputed_transaction.operation = "Deposit"
                         THEN checked_add(account.available, disputed_amount)
                         ELSE Some(account.available)
        new_held == checked_sub(account.held, disputed_amount)
    IN IF ~is_some(new_available)
       THEN Ret(Overflow(transaction.id), account)
       ELSE IF ~is_some(new_held)
       THEN Ret(Underflow(transaction.id), account)
       ELSE Ret(NoError,
                [account EXCEPT
                   !.available = unwrap(new_available),
                   !.held = unwrap(new_held),
                   !.under_dispute = @ \ {disputed_transaction.id}])

resolve_release_stay_disputed(account, transaction, disputed_transaction) ==
    LET disputed_amount == unwrap(disputed_transaction.amount)
        new_available == checked_add(account.available, disputed_amount)
        new_held == checked_sub(account.held, disputed_amount)
    IN IF ~is_some(new_available)
       THEN Ret(Overflow(transaction.id), account)
       ELSE IF ~is_some(new_held)
       THEN Ret(Underflow(transaction.id), account)
       ELSE Ret(NoError,
                [account EXCEPT
                   !.available = unwrap(new_available),
                   !.held = unwrap(new_held)])

\* operation_resolve once the referenced transaction is known to be under
\* dispute: its amount, the match on its operation, the removal from
\* under_dispute.
resolve_release(account, transaction, disputed_transaction) ==
    IF ~is_some(disputed_transaction.amount)
    THEN Ret(MissingAmount(transaction.id), account)
    ELSE LET disputed_amount == unwrap(disputed_transaction.amount) IN
         IF disputed_transaction.operation \in {"Deposit", "Withdrawal"}
         THEN LET new_available == checked_add(account.available, disputed_amount)
                  new_held == checked_sub(account.held, disputed_amount)
              IN IF ~is_some(new_available)
                 THEN Ret(Overflow(transaction.id), account)
                 ELSE IF ~is_some(new_held)
                 THEN Ret(Underflow(transaction.id), account)
                 ELSE Ret(NoError,
                          [account EXCEPT
                             !.available = unwrap(new_available),
                             !.held = unwrap(new_held),
                             !.under_dispute = @ \ {disputed_transaction.id}])
         ELSE Ret(InvalidOperationUnderDispute(transaction.operation,
                                               transaction.id), account)

operation_resolve(account, transaction) ==
    IF transaction.id \notin DOMAIN account.transactions
    THEN Ret(MissingTransaction(transaction.id), account)
    ELSE LET disputed_transaction == account.transactions[transaction.id] IN
         IF disputed_transaction.id \notin account.under_dispute
         THEN Ret(IncorrectResolve(transaction.operation, transaction.id), account)
         ELSE resolve_release(account, transaction, disputed_transaction)

chargeback_settle_from_available(account, transaction, disputed_transaction) ==
    IF ~is_some(disputed_transaction.amount)
    THEN Ret(MissingAmount(transaction.id), account)
    ELSE LET new_held == checked_sub(account.held, unwrap(disputed_transaction.amount))
             new_available == checked_sub(account.available,
                                          unwrap(disputed_transaction.amount))
         IN IF ~is_some(new_held) \/ ~is_some(new_available)
            THEN Ret(Underflow(transaction.id), account)
            ELSE Ret(NoError,
                     [account EXCEPT
                        !.held = unwrap(new_held),
                        !.available = unwrap(new_available),
                        !.under_dispute = @ \ {disputed_transaction.id},
                        !.locked = TRUE])

chargeback_settle_keep_disputed(account, transaction, disputed_transaction) ==
    IF ~is_some(disputed_transaction.amount)
    THEN Ret(MissingAmount(transaction.id), account)
    ELSE LET new_held == checked_sub(account.held, unwrap(disputed_transaction.amount))
         IN IF ~is_some(new_held)
            THEN Ret(Underflow(transaction.id), account)
            ELSE Ret(NoError,
                     [account EXCEPT !.held = unwrap(new_held), !.locked = TRUE])

chargeback_settle_no_lock(account, transaction, disputed_transaction) ==
    LET new_held == checked_sub(account.held, unwrap(disputed_transaction.amount))
    IN IF ~is_some(new_held)
       THEN Ret(Underflow(transaction.id), account)
       ELSE Ret(NoError,
                [account EXCEPT
                   !.held = unwrap(new_held),
                   !.under_dispute = @ \ {disputed_transaction.id}])

\* operation_chargeback once the referenced transaction is known to be under
\* dispute: its amount, the match on its operation, the removal from
\* under_dispute and the lock.
chargeback_settle(account, transaction, disputed_transaction) ==
    IF ~is_some(disputed_transaction.amount)
    THEN Ret(MissingAmount(transaction.id), account)
    ELSE LET disputed_amount == unwrap(disputed_transaction.amount) IN
         IF disputed_transaction.operation \in {"Deposit", "Withdrawal"}
         THEN LET new_held == checked_sub(account.held, disputed_amount)
              IN IF ~is_some(new_held)
                 THEN Ret(Underflow(transaction.id), account)
                 ELSE Ret(NoError,
                          [account EXCEPT
                             !.held = unwrap(new_held),
                             !.under_dispute = @ \ {disputed_transaction.id},
                             !.locked = TRUE])
         ELSE Ret(InvalidOperationUnderDispute(transaction.operation,
                                               transaction.id), account)

operation_chargeback_lock_first(account, transaction) ==
    IF transaction.id \notin DOMAIN account.transactions
    THEN Ret(MissingTransaction(transaction.id), account)
    ELSE IF account.transactions[transaction.id].id \notin account.under_dispute
    THEN Ret(IncorrectChargeback(transaction.operation, transaction.id),
             [account EXCEPT !.locked = TRUE])
    ELSE chargeback_settle(account, transaction, account.transactions[transaction.id])

operation_chargeback(account, transaction) ==
    IF transaction.id \notin DOMAIN account.transactions
    THEN Ret(MissingTransaction(transaction.id), account)
    ELSE LET disputed_transaction == account.transactions[transaction.id] IN
         IF disputed_transaction.id \notin account.under_dispute
         THEN Ret(IncorrectChargeback(transaction.operation, transaction.id), account)
         ELSE chargeback_settle(account, transaction, disputed_transaction)

\* ----------------------------------------------------------- dispatcher
\* The match of process_one on transaction.operation.
dispatch(account, transaction) ==
    CASE transaction.operation = "Deposit" -> operation_deposit(account, transaction)
      [] transaction.operation = "Withdrawal" -> operation_withdraw(account, transaction)
      [] transaction.operation = "Dispute" -> operation_dispute(account, transaction)
      [] transaction.operation = "Resolve" -> operation_resolve(account, transaction)
      [] transaction.operation = "Chargeback" -> operation_chargeback(account, transaction)

entry_or_default_alone(map, client_id) ==
    IF client_id \in DOMAIN map.data
    THEN map
    ELSE [data |-> (client_id :> AccountDataDefault), keys |-> << client_id >>]

\* self.accounts.entry(client_id).or_default(): the map after the lookup.  A
\* key that is absent is appended, with the default account, at the end of the
\* insertion order.
entry_or_default(map, client_id) ==
    IF client_id \in DOMAIN map.data
    THEN map
    ELSE [data |-> (client_id :> AccountDataDefault) @@ map.data,
          keys |-> Append(map.keys, client_id)]

process_one_no_gate(map, transaction) ==
    LET entered == entry_or_default(map, transaction.client_id)
        r == dispatch(entered.data[transaction.client_id], transaction)
    IN [result |-> r.result,
        accounts |-> [entered EXCEPT !.data[transaction.client_id] = r.account]]

process_one_global_ids(map, transaction) ==
    LET entered == entry_or_default(map, transaction.client_id)
        account == entered.data[transaction.client_id]
        taken == \E c \in DOMAIN map.data : transaction.id \in DOMAIN map.data[c].transactions
    IN IF account.locked
       THEN [result |-> AccountLocked(transaction.client_id), accounts |-> entered]
       ELSE IF transaction.operation \in {"Deposit", "Withdrawal"} /\ taken
       THEN [result |-> DuplicatedTransaction(transaction.id, transaction.client_id),
             accounts |-> entered]
       ELSE LET r == dispatch(account, transaction)
            IN [result |-> r.result,
                accounts |-> [entered EXCEPT !.data[transaction.client_id] = r.account]]

\* Engine::process_one: the Result and the ledger map it leaves behind.
process_one(map, transaction) ==
    LET entered == entry_or_default(map, transaction.client_id)
        account == entered.data[transaction.client_id]
    IN IF account.locked
       THEN [result |-> AccountLocked(transaction.client_id), accounts |-> entered]
       ELSE LET r == dispatch(account, transaction)
            IN [result |-> r.result,
                accounts |-> [entered EXCEPT !.data[transaction.client_id] = r.account]]

\* ------------------------------------------------------------- report
\* Decimal's `+`: the sum, or a panic when it leaves the representable range.
decimal_add(a, b) == checked_add(a, b)

\* ReportRow as serialize_report_to_writer builds it for one map entry.
ReportRow(client_id, data) ==
    [client_id |-> client_id, available |-> data.available, held |-> data.held,
     total |-> unwrap(decimal_add(data.available, data.held)), locked |-> data.locked]

\* Engine::serialize_report_to_writer: the map is iterated in insertion order
\* and each row is built and serialized in turn, so the rows before the first
\* one whose total panics have been written.
serialize_report_to_writer(map) ==
    LET overflowing == {i \in 1..Len(map.keys) :
                           ~is_some(decimal_add(map.data[map.keys[i]].available,
                                                map.data[map.keys[i]].held))}
        written == IF overflowing = {}
                   THEN Len(map.keys)
                   ELSE (CHOOSE i \in overflowing : \A j \in overflowing : i <= j) - 1
    IN [rows |-> [i \in 1..written |-> ReportRow(map.keys[i], map.data[map.keys[i]])],
        panicked |-> overflowing # {}]

\* ------------------------------------------------------ the reader loop
loop_body_propagate(map, transaction) ==
    LET r == process_one(map, transaction)
    IN [accounts |-> r.accounts, result |-> r.result, propagate |-> r.result # NoError]

\* The body of the for loop of process_from_reader: the error of process_one
\* is printed, never propagated with `?`.
loop_body(map, transaction) ==
    LET r == process_one(map, transaction)
    IN [accounts |-> r.accounts, result |-> r.result, propagate |-> FALSE]

\* ------------------------------------------------------------ the state
MaxStream == 3
MaxExtremeTx == 4
MaxExtremeRecords == 6

\* The ids and the records of a run of one client in which every Deposit and
\* Withdrawal carries Decimal::MAX.
ExtremeIds == 1..MaxExtremeTx
ExtremeTransaction ==
    [operation : {"Deposit", "Withdrawal"}, client_id : {1},
     id : ExtremeIds, amount : {Some(MaxDecimal)}]
    \cup [operation : {"Dispute", "Resolve", "Chargeback"}, client_id : {1},
          id : ExtremeIds, amount : {None}]

VARIABLES
    accounts,    \* Engine.accounts: [data: ClientId -> AccountData, keys: insertion order]
    processed,   \* number of records process_from_reader has taken from the input
    last,        \* the record of the latest process_one call (None before the first)
    result,      \* what that call returned
    before,      \* Engine.accounts as it was when that call began
    latest,      \* per (client, id): the latest successful Dispute/Resolve/Chargeback, or "-"
    length,      \* number of records of the input
    input,       \* the records read so far, in order (kept by StreamSpec only)
    pc,          \* "reading", "returned" (Ok), "failed" (Err), "reported"
    report       \* what serialize_report_to_writer wrote (None before it ran)

vars == << accounts, processed, last, result, before, latest, length, input, pc, report >>

\* Engine::new(), no call made yet
Fresh ==
    /\ accounts = [data |-> << >>, keys |-> << >>]
    /\ processed = 0
    /\ last = None
    /\ result = NoError
    /\ before = [data |-> << >>, keys |-> << >>]
    /\ latest = [k \in ClientIds \X (TransactionIds \cup ExtremeIds) |-> "-"]
    /\ input = << >>
    /\ pc = "reading"
    /\ report = None

Init == Fresh /\ length = MaxRecords

\* One iteration of the loop of process_from_reader on the record t.
Iterate(t) ==
    /\ pc = "reading"
    /\ processed < length
    /\ LET r == loop_body(accounts, t)
       IN /\ accounts' = r.accounts
          /\ result' = r.result
          /\ pc' = IF r.propagate THEN "failed" ELSE "reading"
          /\ latest' = IF r.result = NoError
                          /\ t.operation \in {"Dispute", "Resolve", "Chargeback"}
                       THEN [latest EXCEPT ![<< t.client_id, t.id >>] = t.operation]
                       ELSE latest
    /\ last' = Some(t)
    /\ before' = accounts
    /\ processed' = processed + 1
    /\ UNCHANGED << length, report >>

Process(t) == Iterate(t) /\ UNCHANGED input

Deposit == \E t \in Transaction : t.operation = "Deposit" /\ Process(t)
Withdrawal == \E t \in Transaction : t.operation = "Withdrawal" /\ Process(t)
Dispute == \E t \in Transaction : t.operation = "Dispute" /\ Process(t)
Resolve == \E t \in Transaction : t.operation = "Resolve" /\ Process(t)
Chargeback == \E t \in Transaction : t.operation = "Chargeback" /\ Process(t)

Next == Deposit \/ Withdrawal \/ Dispute \/ Resolve \/ Chargeback

Spec == Init /\ [][Next]_vars

\* ------------------------------------------- a whole run, input remembered
\* An input of any length up to MaxStream.
InitStream == Fresh /\ length \in 0..MaxStream

\* process_from_reader takes the next record of the input.
ReadRecord == \E t \in Transaction : Iterate(t) /\ input' = Append(input, t)

\* The input is exhausted: process_from_reader returns Ok(()).
EndOfInput ==
    /\ pc = "reading"
    /\ processed = length
    /\ pc' = "returned"
    /\ UNCHANGED << accounts, processed, last, result, before, latest, length, input, report >>

\* serialize_report_stdout, once the input has been processed.
Report ==
    /\ pc = "returned"
    /\ report' = Some(serialize_report_to_writer(accounts))
    /\ pc' = "reported"
    /\ UNCHANGED << accounts, processed, last, result, before, latest, length, input >>

NextStream == ReadRecord \/ EndOfInput \/ Report

StreamSpec == InitStream /\ [][NextStream]_vars /\ WF_vars(NextStream)

\* ------------------------------- a run at the edge of the Decimal range
InitExtreme == Fresh /\ length = MaxExtremeRecords

\* process_from_reader takes a record that moves Decimal::MAX.
ExtremeRecord == \E t \in ExtremeTransaction : Process(t)

NextExtreme == ExtremeRecord

ExtremeSpec == InitExtreme /\ [][NextExtreme]_vars

\* ------------------------------------------------- the latest call, named
Called == is_some(last)
LastRecord == unwrap(last)
Target == LastRecord.client_id
\* The account process_one worked on: the stored one, or the default one that
\* entry().or_default() created for a client id not yet in the map.
AccountBefore == entry_or_default(before, Target).data[Target]
AccountAfter == accounts.data[Target]
\* The handler ran: the lock gate of process_one let the record through.
Dispatched == Called /\ ~AccountBefore.locked
Failed == Called /\ result # NoError
Succeeded == Called /\ result = NoError
Stored(account, id) == id \in DOMAIN account.transactions
DisputeOf(c, id) == [operation |-> "Dispute", client_id |-> c, id |-> id, amount |-> None]
ResolveOf(c, id) == [operation |-> "Resolve", client_id |-> c, id |-> id, amount |-> None]
ChargebackOf(c, id) == [operation |-> "Chargeback", client_id |-> c, id |-> id, amount |-> None]

\* C1: an account that was locked when the latest process_one call began is
\* still in the map and still locked after it, and if that call's record was
\* for this client (whatever its operation type) the call returned
\* AccountLocked(client) and left the account (available, held, transactions,
\* under_dispute, locked) as it was.  As `before` is the state one call earlier,
\* this holds of every later state.
LockIsPermanent ==
    \A c \in DOMAIN before.data :
        before.data[c].locked =>
            /\ c \in DOMAIN accounts.data
            /\ accounts.data[c].locked
            /\ (Called /\ Target = c) =>
                   /\ result = AccountLocked(c)
                   /\ accounts.data[c] = before.data[c]

\* C1 witness: a Dispute of a transaction stored in an already locked account
\* has just been rejected.
LockedAccountRejectedRecord ==
    /\ Called
    /\ Target \in DOMAIN before.data
    /\ before.data[Target].locked
    /\ LastRecord.operation = "Dispute"
    /\ Stored(AccountBefore, LastRecord.id)
    /\ result = AccountLocked(Target)

\* C2: whenever process_one returns a ProcessingError, the targeted account's
\* available, held, locked, transactions and under_dispute are what they were
\* when the call began.
ErrorLeavesAccountUntouched ==
    Failed =>
        /\ AccountAfter.available = AccountBefore.available
        /\ AccountAfter.held = AccountBefore.held
        /\ AccountAfter.locked = AccountBefore.locked
        /\ AccountAfter.transactions = AccountBefore.transactions
        /\ AccountAfter.under_dispute = AccountBefore.under_dispute

\* C2 witness: a Dispute of a stored Deposit failed in its second checked step
\* (the addition to held overflowed) after the first one (the subtraction from
\* available) had succeeded.
DisputeFailedInSecondStep ==
    /\ Dispatched
    /\ LastRecord.operation = "Dispute"
    /\ result = Overflow(LastRecord.id)
    /\ Stored(AccountBefore, LastRecord.id)
    /\ AccountBefore.transactions[LastRecord.id].operation = "Deposit"
    /\ is_some(checked_sub(AccountBefore.available,
                           unwrap(AccountBefore.transactions[LastRecord.id].amount)))

\* C3 as claimed: when process_one returns an error the whole ledger map is
\* as it was: no account modified, none added.
ErrorLeavesLedgerUntouched ==
    Failed => accounts = before

\* C3 amended: when process_one returns an error no existing account is
\* modified and the insertion order of the existing keys is kept; the only
\* change the map can show is a new account, in default state, for the record's
\* client, appended at the end.  Hence an account none of whose records
\* succeeded (its store is empty) is in default state.
ErrorAddsAtMostDefaultAccount ==
    /\ Failed =>
          /\ \A c \in DOMAIN before.data : accounts.data[c] = before.data[c]
          /\ DOMAIN accounts.data = DOMAIN before.data \cup {Target}
          /\ Target \notin DOMAIN before.data =>
                 /\ accounts.data[Target] = AccountDataDefault
                 /\ accounts.keys = Append(before.keys, Target)
          /\ Target \in DOMAIN before.data => accounts.keys = before.keys
    /\ \A c \in DOMAIN accounts.data :
          accounts.data[c].transactions = << >> =>
              accounts.data[c] = AccountDataDefault

\* C3 witness: a failed record for a client not yet in a non-empty map.
FailedRecordCreatedAccount ==
    /\ Failed
    /\ before.keys # << >>
    /\ Target \notin DOMAIN before.data
    /\ Target \in DOMAIN accounts.data

\* C4: operation_deposit and operation_withdraw, given a record whose id is
\* already a key of the account's transactions store (under a Deposit or a
\* Withdrawal), fail with DuplicatedTransaction(id, client) and leave the
\* account, the stored record included, as it was: of the call that has just
\* run, and of either handler on every account of the ledger.
DuplicateIsRejected ==
    /\ (/\ Dispatched
        /\ LastRecord.operation \in {"Deposit", "Withdrawal"}
        /\ Stored(AccountBefore, LastRecord.id)) =>
           /\ result = DuplicatedTransaction(LastRecord.id, Target)
           /\ AccountAfter = AccountBefore
    /\ \A c \in DOMAIN accounts.data : \A t \in Transaction :
          (t.client_id = c /\ Stored(accounts.data[c], t.id)) =>
              /\ operation_deposit(accounts.data[c], t) =
                     Ret(DuplicatedTransaction(t.id, c), accounts.data[c])
              /\ operation_withdraw(accounts.data[c], t) =
                     Ret(DuplicatedTransaction(t.id, c), accounts.data[c])

\* C4 witness: a Withdrawal that the account could afford, carrying the id of
\* a stored Deposit of another amount, has just been rejected.
DuplicateWithdrawalRejected ==
    /\ Dispatched
    /\ LastRecord.operation = "Withdrawal"
    /\ Stored(AccountBefore, LastRecord.id)
    /\ AccountBefore.transactions[LastRecord.id].operation = "Deposit"
    /\ is_some(LastRecord.amount)
    /\ unwrap(LastRecord.amount) >= ZERO
    /\ unwrap(LastRecord.amount) <= AccountBefore.available
    /\ LastRecord.amount # AccountBefore.transactions[LastRecord.id].amount
    /\ result = DuplicatedTransaction(LastRecord.id, Target)

\* C5: in every reachable state every account has held >= 0.
HeldNeverNegative ==
    \A c \in DOMAIN accounts.data : accounts.data[c].held >= ZERO

\* C5 witness: a Chargeback has just taken a positive hold back down to zero.
ChargebackEmptiedHold ==
    /\ Succeeded
    /\ LastRecord.operation = "Chargeback"
    /\ AccountBefore.held > ZERO
    /\ AccountAfter.held = ZERO

\* C6 as claimed: in every reachable state every account has available >= 0.
AvailableNeverNegative ==
    \A c \in DOMAIN accounts.data : accounts.data[c].available >= ZERO

\* C6 amended: available can be negative, but the only call that takes it
\* below zero from a value that was not negative is a successful Dispute of a
\* stored Deposit; a successful Withdrawal never leaves it negative.
OnlyDepositDisputeOverdraws ==
    /\ \A c \in DOMAIN accounts.data :
          LET was == IF c \in DOMAIN before.data
                     THEN before.data[c].available ELSE ZERO
          IN (accounts.data[c].available < ZERO /\ was >= ZERO) =>
                 /\ Succeeded
                 /\ Target = c
                 /\ LastRecord.operation = "Dispute"
                 /\ AccountBefore.transactions[LastRecord.id].operation = "Deposit"
    /\ (Succeeded /\ LastRecord.operation = "Withdrawal") =>
          AccountAfter.available >= ZERO

\* C6 witness: the Dispute of a Deposit whose funds were partly withdrawn has
\* just left available below zero.
DepositDisputeOverdrew ==
    /\ Succeeded
    /\ LastRecord.operation = "Dispute"
    /\ AccountBefore.available >= ZERO
    /\ AccountAfter.available < ZERO

\* C7: for every unlocked account of the ledger and every stored Deposit not
\* under dispute, a Dispute of it immediately followed by a Resolve of it, both
\* successful, gives back the ledger as it was before the Dispute: available,
\* held, under_dispute, locked (and the store).
DisputeResolveRoundTrip ==
    \A c \in DOMAIN accounts.data : \A id \in DOMAIN accounts.data[c].transactions :
        (/\ ~accounts.data[c].locked
         /\ accounts.data[c].transactions[id].operation = "Deposit"
         /\ id \notin accounts.data[c].under_dispute) =>
            LET disputed == process_one(accounts, DisputeOf(c, id))
                resolved == process_one(disputed.accounts, ResolveOf(c, id))
            IN (disputed.result = NoError /\ resolved.result = NoError) =>
                   /\ disputed.accounts.data[c].under_dispute =
                          accounts.data[c].under_dispute \cup {id}
                   /\ resolved.accounts = accounts

\* C7 witness: the Resolve of a disputed Deposit of a positive amount has just
\* succeeded, in an account that holds another disputed transaction as well.
DepositDisputeResolved ==
    /\ Succeeded
    /\ LastRecord.operation = "Resolve"
    /\ AccountBefore.transactions[LastRecord.id].operation = "Deposit"
    /\ unwrap(AccountBefore.transactions[LastRecord.id].amount) > ZERO
    /\ AccountAfter.under_dispute # {}
    /\ AccountAfter.available = AccountBefore.available
                                 + unwrap(AccountBefore.transactions[LastRecord.id].amount)

\* C8: a successful Chargeback of a disputed Deposit or Withdrawal of amount a
\* lowers held by exactly a, leaves available and the store alone, takes the id
\* out of under_dispute and locks the account; so an account whose only stored
\* transaction is a charged-back Deposit has available = 0, held = 0, locked.
ChargebackEffect ==
    /\ (Succeeded /\ LastRecord.operation = "Chargeback") =>
          LET disputed_transaction == AccountBefore.transactions[LastRecord.id] IN
          /\ disputed_transaction.operation \in {"Deposit", "Withdrawal"}
          /\ LastRecord.id \in AccountBefore.under_dispute
          /\ AccountAfter.held = AccountBefore.held - unwrap(disputed_transaction.amount)
          /\ AccountAfter.available = AccountBefore.available
          /\ AccountAfter.under_dispute = AccountBefore.under_dispute \ {LastRecord.id}
          /\ AccountAfter.transactions = AccountBefore.transactions
          /\ AccountAfter.locked
    /\ \A c \in DOMAIN accounts.data :
          LET account == accounts.data[c] IN
          (/\ account.locked
           /\ Cardinality(DOMAIN account.transactions) = 1
           /\ \A id \in DOMAIN account.transactions :
                  account.transactions[id].operation = "Deposit") =>
              /\ account.available = ZERO
              /\ account.held = ZERO
              /\ account.under_dispute = {}

\* C8 witness: Deposit(a), Dispute, Chargeback with a > 0 has just ended on an
\* account that stores nothing else.
DepositChargedBack ==
    /\ Succeeded
    /\ LastRecord.operation = "Chargeback"
    /\ DOMAIN AccountAfter.transactions = {LastRecord.id}
    /\ AccountAfter.transactions[LastRecord.id].operation = "Deposit"
    /\ unwrap(AccountAfter.transactions[LastRecord.id].amount) > ZERO
    /\ AccountAfter.locked

\* C9: operation_dispute, given an id that is not a key of the account's
\* transactions store, fails with MissingTransaction(id) and changes no balance,
\* no dispute set, no lock flag: of the call that has just run, and of the
\* handler on every account of the ledger.
DisputeOfUnknownIdRejected ==
    /\ (/\ Dispatched
        /\ LastRecord.operation = "Dispute"
        /\ ~Stored(AccountBefore, LastRecord.id)) =>
           /\ result = MissingTransaction(LastRecord.id)
           /\ AccountAfter = AccountBefore
    /\ \A c \in DOMAIN accounts.data : \A id \in TransactionIds :
          ~Stored(accounts.data[c], id) =>
              operation_dispute(accounts.data[c], DisputeOf(c, id)) =
                  Ret(MissingTransaction(id), accounts.data[c])

\* C9 witness: a Dispute of an id the account does not store, while it stores
\* and disputes another one, has just been rejected.
UnknownDisputeRejected ==
    /\ Dispatched
    /\ LastRecord.operation = "Dispute"
    /\ ~Stored(AccountBefore, LastRecord.id)
    /\ AccountBefore.under_dispute # {}
    /\ result = MissingTransaction(LastRecord.id)

\* C10: operation_resolve (operation_chargeback), given the id of a stored
\* transaction that is not in under_dispute, fails with IncorrectResolve
\* (IncorrectChargeback) and leaves the account as it was, unlocked included.
UndisputedResolveChargebackRejected ==
    /\ (/\ Dispatched
        /\ Stored(AccountBefore, LastRecord.id)
        /\ LastRecord.id \notin AccountBefore.under_dispute) =>
           /\ LastRecord.operation = "Resolve" =>
                  /\ result = IncorrectResolve("Resolve", LastRecord.id)
                  /\ AccountAfter = AccountBefore
           /\ LastRecord.operation = "Chargeback" =>
                  /\ result = IncorrectChargeback("Chargeback", LastRecord.id)
                  /\ AccountAfter = AccountBefore
                  /\ ~AccountAfter.locked
    /\ \A c \in DOMAIN accounts.data : \A id \in DOMAIN accounts.data[c].transactions :
          id \notin accounts.data[c].under_dispute =>
              /\ operation_resolve(accounts.data[c], ResolveOf(c, id)) =
                     Ret(IncorrectResolve("Resolve", id), accounts.data[c])
              /\ operation_chargeback(accounts.data[c], ChargebackOf(c, id)) =
                     Ret(IncorrectChargeback("Chargeback", id), accounts.data[c])

\* C10 witness: a Chargeback of a stored transaction that is not under
\* dispute has just been rejected, the account staying unlocked.
UndisputedChargebackRejected ==
    /\ Dispatched
    /\ LastRecord.operation = "Chargeback"
    /\ Stored(AccountBefore, LastRecord.id)
    /\ LastRecord.id \notin AccountBefore.under_dispute
    /\ result = IncorrectChargeback("Chargeback", LastRecord.id)
    /\ ~AccountAfter.locked

\* ------------------------------------------------------------ C11 .. C20
UnderDispute(c) == accounts.data[c].under_dispute
\* The ledger map holding the account of client c only.
Solo(map, c) ==
    IF c \in DOMAIN map.data
    THEN [data |-> (c :> map.data[c]), keys |-> << c >>]
    ELSE [data |-> << >>, keys |-> << >>]

\* C11 as claimed: no id is in under_dispute of two distinct accounts.
DisputedInOneAccountOnly ==
    \A c1, c2 \in DOMAIN accounts.data :
        c1 # c2 => UnderDispute(c1) \cap UnderDispute(c2) = {}

\* C11 amended: an id is in under_dispute of an account only if that account's
\* own store has a transaction with that id, so two accounts have the same id
\* under dispute only when both store it: an id stored by one account only is
\* under dispute in at most one account.
DisputedOnlyWhereStored ==
    \A c1 \in DOMAIN accounts.data : \A id \in UnderDispute(c1) :
        /\ Stored(accounts.data[c1], id)
        /\ \A c2 \in DOMAIN accounts.data \ {c1} :
               id \in UnderDispute(c2) => Stored(accounts.data[c2], id)

\* C11 witness: two clients both hold the same id under dispute.
SameIdDisputedTwice ==
    \E c1, c2 \in DOMAIN accounts.data :
        c1 # c2 /\ UnderDispute(c1) \cap UnderDispute(c2) # {}

\* C12: an id is in under_dispute of an account exactly when the latest
\* successful Dispute/Resolve/Chargeback record for that (client, id) is a
\* Dispute; it enters the set only in a successful Dispute call and leaves it
\* only in a successful Resolve or Chargeback call for it.
DisputeLifecycle ==
    /\ \A c \in ClientIds : \A id \in TransactionIds :
          (c \in DOMAIN accounts.data /\ id \in UnderDispute(c))
              <=> latest[<< c, id >>] = "Dispute"
    /\ \A c \in DOMAIN accounts.data : \A id \in TransactionIds :
          LET was == c \in DOMAIN before.data /\ id \in before.data[c].under_dispute
              is == id \in UnderDispute(c)
          IN /\ (is /\ ~was) =>
                    /\ Succeeded
                    /\ LastRecord = DisputeOf(c, id)
             /\ (was /\ ~is) =>
                    /\ Succeeded
                    /\ LastRecord \in {ResolveOf(c, id), ChargebackOf(c, id)}

\* C12 witness: a successful Resolve has just taken an id out of under_dispute
\* while another id of the same account stays under dispute.
DisputeEndedByResolve ==
    /\ Succeeded
    /\ LastRecord.operation = "Resolve"
    /\ LastRecord.id \in AccountBefore.under_dispute
    /\ LastRecord.id \notin AccountAfter.under_dispute
    /\ AccountAfter.under_dispute # {}
    /\ latest[<< Target, LastRecord.id >>] = "Resolve"

\* C13: what process_one returns for a record of client B, and the account of
\* B it leaves, are what it returns and leaves on the ledger holding B's
\* account alone; DuplicatedTransaction is returned exactly to a Deposit or
\* Withdrawal whose id B's own store has, MissingTransaction exactly to a
\* Dispute, Resolve or Chargeback whose id B's own store lacks.
IdsAreScopedPerAccount ==
    Called =>
        LET alone == process_one(Solo(before, Target), LastRecord) IN
        /\ alone.result = result
        /\ alone.accounts.data[Target] = AccountAfter
        /\ result.kind = "DuplicatedTransaction" <=>
               /\ Dispatched
               /\ LastRecord.operation \in {"Deposit", "Withdrawal"}
               /\ Stored(AccountBefore, LastRecord.id)
        /\ result.kind = "MissingTransaction" <=>
               /\ Dispatched
               /\ LastRecord.operation \in {"Dispute", "Resolve", "Chargeback"}
               /\ ~Stored(AccountBefore, LastRecord.id)

\* C13 witness: a Deposit of client B has just succeeded under an id that
\* another client's store already has.
IdReusedByAnotherClient ==
    /\ Succeeded
    /\ LastRecord.operation = "Deposit"
    /\ \E c \in DOMAIN before.data :
          c # Target /\ Stored(before.data[c], LastRecord.id)

\* The ledger of Engine::new().
EmptyLedger == [data |-> << >>, keys |-> << >>]

\* The ledger after process_one has been applied to each record, in order.
RECURSIVE ApplyAll(_, _)
ApplyAll(map, records) ==
    IF records = << >>
    THEN map
    ELSE ApplyAll(process_one(map, Head(records)).accounts, Tail(records))

\* The client ids of the records, each once, in the order of first appearance.
RECURSIVE FirstReferences(_)
FirstReferences(records) ==
    IF records = << >>
    THEN << >>
    ELSE LET earlier == FirstReferences(SubSeq(records, 1, Len(records) - 1))
             c == records[Len(records)].client_id
         IN IF \E i \in 1..Len(earlier) : earlier[i] = c
            THEN earlier
            ELSE Append(earlier, c)

\* What process_one returned for the i-th record of the input.
ResultOf(i) == process_one(ApplyAll(EmptyLedger, SubSeq(input, 1, i - 1)), input[i]).result

\* C14: once the report has been produced it holds exactly one row per account
\* of the ledger map, in the order in which the client ids were first
\* referenced by an input record, each row carrying the account's available,
\* held and locked and total = available + held; and the ledger is still the
\* one the records left.
ReportIsFaithful ==
    pc = "reported" =>
        LET rows == unwrap(report).rows
            order == FirstReferences(input)
        IN /\ Len(rows) = Cardinality(DOMAIN accounts.data)
           /\ Len(rows) = Len(order)
           /\ \A i \in 1..Len(rows) :
                  /\ rows[i].client_id = order[i]
                  /\ rows[i].available = accounts.data[order[i]].available
                  /\ rows[i].held = accounts.data[order[i]].held
                  /\ rows[i].locked = accounts.data[order[i]].locked
                  /\ rows[i].total = rows[i].available + rows[i].held
           /\ accounts = ApplyAll(EmptyLedger, input)

\* C15: the records read so far have each been applied once, in input order,
\* whatever failed among them; process_from_reader leaves its loop only at the
\* end of the input and never with an error; and it does return Ok.
StreamIsProcessedToTheEnd ==
    /\ [](/\ Len(input) = processed
          /\ accounts = ApplyAll(EmptyLedger, input)
          /\ pc # "failed"
          /\ pc # "reading" => processed = length)
    /\ <>(pc = "returned")

\* C15 witness: process_from_reader has returned Ok from an input whose first
\* record failed and whose last record was applied.
ReturnedOkAfterFailure ==
    /\ pc = "returned"
    /\ Len(input) = length
    /\ length > 1
    /\ ResultOf(1) # NoError
    /\ Succeeded
    /\ LastRecord = input[length]
    /\ accounts # EmptyLedger

InRange(v) == v \in DecimalRange
\* The amount of the record the latest call carried, and of the stored
\* transaction it referred to.
LastAmount == unwrap(LastRecord.amount)
Referenced == AccountBefore.transactions[LastRecord.id]
ReferencedAmount == unwrap(Referenced.amount)
\* The handler was given an id its account does not store yet, with an amount
\* that is present and not negative.
FreshWithAmount ==
    /\ Dispatched
    /\ ~Stored(AccountBefore, LastRecord.id)
    /\ is_some(LastRecord.amount)
    /\ LastAmount >= ZERO

\* C16: operation_withdraw, given a fresh id and a present non-negative
\* amount: if available < amount it fails with InsufficientFounds(id, client),
\* the account is unchanged and the id not stored; otherwise available goes
\* down by exactly the amount, held, locked and under_dispute stay, and the
\* record is stored under its id.
WithdrawalEffect ==
    (FreshWithAmount /\ LastRecord.operation = "Withdrawal") =>
        IF AccountBefore.available < LastAmount
        THEN /\ result = InsufficientFounds(LastRecord.id, Target)
             /\ AccountAfter = AccountBefore
             /\ ~Stored(AccountAfter, LastRecord.id)
        ELSE /\ result = NoError
             /\ AccountAfter.available = AccountBefore.available - LastAmount
             /\ AccountAfter.held = AccountBefore.held
             /\ AccountAfter.locked = AccountBefore.locked
             /\ AccountAfter.under_dispute = AccountBefore.under_dispute
             /\ DOMAIN AccountAfter.transactions =
                    DOMAIN AccountBefore.transactions \cup {LastRecord.id}
             /\ AccountAfter.transactions[LastRecord.id] = LastRecord
             /\ \A id \in DOMAIN AccountBefore.transactions :
                    AccountAfter.transactions[id] = AccountBefore.transactions[id]

\* C16 witness: a Withdrawal of the whole positive available balance has just
\* succeeded.
WithdrewEverything ==
    /\ FreshWithAmount
    /\ LastRecord.operation = "Withdrawal"
    /\ LastAmount > ZERO
    /\ LastAmount = AccountBefore.available
    /\ result = NoError

\* C17: operation_deposit, given a fresh id, a present amount >= 0 and a sum
\* inside the representable range, raises available by exactly the amount,
\* leaves held, locked and under_dispute alone and stores the record under its
\* id.
DepositEffect ==
    (/\ FreshWithAmount
     /\ LastRecord.operation = "Deposit"
     /\ InRange(AccountBefore.available + LastAmount)) =>
        /\ result = NoError
        /\ AccountAfter.available = AccountBefore.available + LastAmount
        /\ AccountAfter.held = AccountBefore.held
        /\ AccountAfter.locked = AccountBefore.locked
        /\ AccountAfter.under_dispute = AccountBefore.under_dispute
        /\ DOMAIN AccountAfter.transactions =
               DOMAIN AccountBefore.transactions \cup {LastRecord.id}
        /\ AccountAfter.transactions[LastRecord.id] = LastRecord
        /\ \A id \in DOMAIN AccountBefore.transactions :
               AccountAfter.transactions[id] = AccountBefore.transactions[id]

\* C17 witness: a second Deposit, of a positive amount, has just succeeded on
\* an account that holds disputed funds.
DepositedNextToHold ==
    /\ FreshWithAmount
    /\ LastRecord.operation = "Deposit"
    /\ LastAmount > ZERO
    /\ AccountBefore.held > ZERO
    /\ result = NoError

\* C18: the error returned is that of the first failing check, in the order:
\* AccountLocked; for Deposit/Withdrawal DuplicatedTransaction, MissingAmount,
\* NegativeAmount, (Withdrawal only) InsufficientFounds, then Overflow or
\* Underflow; for Dispute/Resolve/Chargeback MissingTransaction, then
\* DuplicatedDispute / IncorrectResolve / IncorrectChargeback.
ValidationOrder ==
    Called =>
        IF AccountBefore.locked
        THEN result = AccountLocked(Target)
        ELSE IF LastRecord.operation \in {"Deposit", "Withdrawal"}
        THEN IF Stored(AccountBefore, LastRecord.id)
             THEN result = DuplicatedTransaction(LastRecord.id, Target)
             ELSE IF ~is_some(LastRecord.amount)
             THEN result = MissingAmount(LastRecord.id)
             ELSE IF LastAmount < ZERO
             THEN result = NegativeAmount
             ELSE IF LastRecord.operation = "Withdrawal"
                     /\ AccountBefore.available < LastAmount
             THEN result = InsufficientFounds(LastRecord.id, Target)
             ELSE result \in {NoError, Overflow(LastRecord.id), Underflow(LastRecord.id)}
        ELSE IF ~Stored(AccountBefore, LastRecord.id)
        THEN result = MissingTransaction(LastRecord.id)
        ELSE IF LastRecord.operation = "Dispute"
                /\ LastRecord.id \in AccountBefore.under_dispute
        THEN result = DuplicatedDispute(LastRecord.id, LastRecord.id, Target)
        ELSE IF LastRecord.operation = "Resolve"
                /\ LastRecord.id \notin AccountBefore.under_dispute
        THEN result = IncorrectResolve("Resolve", LastRecord.id)
        ELSE IF LastRecord.operation = "Chargeback"
                /\ LastRecord.id \notin AccountBefore.under_dispute
        THEN result = IncorrectChargeback("Chargeback", LastRecord.id)
        ELSE result \in {NoError, Overflow(LastRecord.id), Underflow(LastRecord.id)}

\* C18 witness: a Withdrawal that is a duplicate, carries a negative amount
\* and asks for more than a negative available balance covers has just been
\* answered with DuplicatedTransaction.
DuplicateWonOverOtherErrors ==
    /\ Dispatched
    /\ LastRecord.operation = "Withdrawal"
    /\ Stored(AccountBefore, LastRecord.id)
    /\ is_some(LastRecord.amount)
    /\ LastAmount < ZERO
    /\ AccountBefore.available < LastAmount
    /\ result = DuplicatedTransaction(LastRecord.id, Target)

\* C19: operation_dispute, given a stored transaction of amount a that is not
\* under dispute, succeeds whenever the checked results are representable,
\* with no check that available >= a: for a Deposit available goes down by a
\* and held up by a; for a Withdrawal held goes up by a and available stays;
\* either way the id joins under_dispute and locked and the store stay.
DisputeEffect ==
    (/\ Dispatched
     /\ LastRecord.operation = "Dispute"
     /\ Stored(AccountBefore, LastRecord.id)
     /\ LastRecord.id \notin AccountBefore.under_dispute) =>
        LET moved == IF Referenced.operation = "Deposit" THEN ReferencedAmount ELSE ZERO
        IN IF /\ InRange(AccountBefore.available - moved)
              /\ InRange(AccountBefore.held + ReferencedAmount)
           THEN /\ result = NoError
                /\ AccountAfter.available = AccountBefore.available - moved
                /\ AccountAfter.held = AccountBefore.held + ReferencedAmount
                /\ AccountAfter.under_dispute =
                       AccountBefore.under_dispute \cup {LastRecord.id}
                /\ AccountAfter.locked = AccountBefore.locked
                /\ AccountAfter.transactions = AccountBefore.transactions
           ELSE result \in {Overflow(LastRecord.id), Underflow(LastRecord.id)}

\* C19 witness: the Dispute of a Deposit larger than the available balance
\* has just succeeded.
DisputedMoreThanAvailable ==
    /\ Succeeded
    /\ LastRecord.operation = "Dispute"
    /\ Referenced.operation = "Deposit"
    /\ AccountBefore.available < ReferencedAmount
    /\ AccountAfter.held = AccountBefore.held + ReferencedAmount

\* C20: a successful Resolve does the same for a disputed Deposit and a
\* disputed Withdrawal: available up by the amount, held down by it, the id
\* out of under_dispute, locked and the store as they were.  So a Dispute and
\* then a Resolve of a stored Withdrawal of amount a, both successful, leave
\* held and under_dispute as before the Dispute and available exactly a higher.
ResolveEffect ==
    /\ (Succeeded /\ LastRecord.operation = "Resolve") =>
          /\ Referenced.operation \in {"Deposit", "Withdrawal"}
          /\ AccountAfter.available = AccountBefore.available + ReferencedAmount
          /\ AccountAfter.held = AccountBefore.held - ReferencedAmount
          /\ AccountAfter.under_dispute = AccountBefore.under_dispute \ {LastRecord.id}
          /\ AccountAfter.locked = AccountBefore.locked
          /\ AccountAfter.transactions = AccountBefore.transactions
    /\ \A c \in DOMAIN accounts.data : \A id \in DOMAIN accounts.data[c].transactions :
          (/\ ~accounts.data[c].locked
           /\ accounts.data[c].transactions[id].operation = "Withdrawal"
           /\ id \notin accounts.data[c].under_dispute) =>
              LET disputed == process_one(accounts, DisputeOf(c, id))
                  resolved == process_one(disputed.accounts, ResolveOf(c, id))
                  a == unwrap(accounts.data[c].transactions[id].amount)
              IN (disputed.result = NoError /\ resolved.result = NoError) =>
                     /\ resolved.accounts.data[c].held = accounts.data[c].held
                     /\ resolved.accounts.data[c].available =
                            accounts.data[c].available + a
                     /\ resolved.accounts.data[c].under_dispute =
                            accounts.data[c].under_dispute
                     /\ resolved.accounts.data[c].locked = accounts.data[c].locked

\* C20 witness: the Resolve of a disputed Withdrawal of a positive amount has
\* just succeeded.
WithdrawalDisputeResolved ==
    /\ Succeeded
    /\ LastRecord.operation = "Resolve"
    /\ Referenced.operation = "Withdrawal"
    /\ ReferencedAmount > ZERO
    /\ AccountAfter.available = AccountBefore.available + ReferencedAmount

\* ------------------------------------------------------------ C21 .. C29
\* C21: operation_dispute, given an id that is already in under_dispute, fails
\* with DuplicatedDispute(id, id, client) and leaves available, held and
\* under_dispute (the whole account) as they were; so in every account that
\* is not locked a second Dispute of any id under dispute is refused and the
\* hold stays applied once.
DuplicatedDisputeRejected ==
    /\ (/\ Dispatched
        /\ LastRecord.operation = "Dispute"
        /\ LastRecord.id \in AccountBefore.under_dispute) =>
           /\ result = DuplicatedDispute(LastRecord.id, LastRecord.id, Target)
           /\ AccountAfter.available = AccountBefore.available
           /\ AccountAfter.held = AccountBefore.held
           /\ AccountAfter.under_dispute = AccountBefore.under_dispute
    /\ \A c \in DOMAIN accounts.data : \A id \in UnderDispute(c) :
           LET again == operation_dispute(accounts.data[c], DisputeOf(c, id))
           IN /\ again.result = DuplicatedDispute(id, id, c)
              /\ again.account = accounts.data[c]

\* C21 witness: a second Dispute of a Deposit of a positive amount, already
\* under dispute, has just been refused.
SecondDisputeRefused ==
    /\ Dispatched
    /\ LastRecord.operation = "Dispute"
    /\ LastRecord.id \in AccountBefore.under_dispute
    /\ Referenced.operation = "Deposit"
    /\ ReferencedAmount > ZERO
    /\ result.kind = "DuplicatedDispute"

\* C22: every checked addition or subtraction whose result would leave the
\* representable range makes the handler return Overflow(id) or Underflow(id)
\* of the record's id, and a call that returned either left the account as it
\* was: the id of a rejected Deposit is not stored, and a Dispute of a Deposit
\* whose subtraction from available fits but whose addition to held does not
\* changes neither available nor held nor under_dispute.
ArithmeticIsChecked ==
    /\ (Called /\ result.kind \in {"Overflow", "Underflow"}) =>
           /\ result.tx = LastRecord.id
           /\ AccountAfter = AccountBefore
           /\ LastRecord.operation = "Deposit" => ~Stored(AccountAfter, LastRecord.id)
    /\ (FreshWithAmount /\ LastRecord.operation = "Deposit"
          /\ ~InRange(AccountBefore.available + LastAmount)) =>
           result = Overflow(LastRecord.id)
    /\ (FreshWithAmount /\ LastRecord.operation = "Withdrawal"
          /\ AccountBefore.available >= LastAmount
          /\ ~InRange(AccountBefore.available - LastAmount)) =>
           result = Underflow(LastRecord.id)
    /\ (/\ Dispatched
        /\ LastRecord.operation = "Dispute"
        /\ Stored(AccountBefore, LastRecord.id)
        /\ LastRecord.id \notin AccountBefore.under_dispute) =>
           IF Referenced.operation = "Deposit"
              /\ ~InRange(AccountBefore.available - ReferencedAmount)
           THEN result = Underflow(LastRecord.id)
           ELSE ~InRange(AccountBefore.held + ReferencedAmount) =>
                    result = Overflow(LastRecord.id)
    /\ (/\ Dispatched
        /\ LastRecord.operation = "Resolve"
        /\ LastRecord.id \in AccountBefore.under_dispute) =>
           IF ~InRange(AccountBefore.available + ReferencedAmount)
           THEN result = Overflow(LastRecord.id)
           ELSE ~InRange(AccountBefore.held - ReferencedAmount) =>
                    result = Underflow(LastRecord.id)
    /\ (/\ Dispatched
        /\ LastRecord.operation = "Chargeback"
        /\ LastRecord.id \in AccountBefore.under_dispute
        /\ ~InRange(AccountBefore.held - ReferencedAmount)) =>
           result = Underflow(LastRecord.id)

\* C22 witness: with one Deposit already disputed and available at the lower
\* end of the range, the Dispute of a second Deposit has just been rejected
\* with Underflow.
DisputeUnderflowed ==
    /\ Dispatched
    /\ LastRecord.operation = "Dispute"
    /\ Stored(AccountBefore, LastRecord.id)
    /\ Referenced.operation = "Deposit"
    /\ AccountBefore.under_dispute # {}
    /\ ~InRange(AccountBefore.available - ReferencedAmount)
    /\ result = Underflow(LastRecord.id)

\* The orders in which n records can be taken, and those of them that keep
\* the records of each client in their order of arrival.
Orders(n) ==
    {p \in [1..n -> 1..n] : \A i, j \in 1..n : i # j => p[i] # p[j]}
KeepsClientOrder(records, p) ==
    \A i, j \in 1..Len(records) :
        (i < j /\ records[p[i]].client_id = records[p[j]].client_id) => p[i] < p[j]
Reordered(records, p) == [i \in 1..Len(records) |-> records[p[i]]]

\* C23: a process_one call for one client leaves the account of every other
\* client as it was and adds no account but its own; so processing the records
\* read so far in any other order that keeps the relative order of the records
\* of each client gives every account the same available, held, locked,
\* transactions and under_dispute.
AccountsAreIndependent ==
    /\ Called =>
           /\ \A c \in DOMAIN before.data :
                  c # Target => /\ c \in DOMAIN accounts.data
                                /\ accounts.data[c] = before.data[c]
           /\ DOMAIN accounts.data = DOMAIN before.data \cup {Target}
    /\ \A p \in Orders(Len(input)) :
           KeepsClientOrder(input, p) =>
               ApplyAll(EmptyLedger, Reordered(input, p)).data = accounts.data

\* C23 witness: three records were read, for client 1, client 2 and client 1
\* again, and left client 1 with funds held and client 2 with funds available.
InterleavedClients ==
    /\ Len(input) = 3
    /\ input[1].client_id = 1
    /\ input[2].client_id = 2
    /\ input[3].client_id = 1
    /\ accounts.data[1].held > ZERO
    /\ accounts.data[1].under_dispute # {}
    /\ accounts.data[2].available > ZERO

\* C24: every record in the transactions store of any account is a Deposit or
\* a Withdrawal of that client with a present amount >= 0, stored under its
\* own id; a record that was in a store when the latest call began is still
\* there, unmodified; and no Dispute, Resolve or Chargeback returns
\* InvalidOperationUnderDispute or MissingAmount.
StoreHoldsDepositsAndWithdrawals ==
    /\ \A c \in DOMAIN accounts.data : \A id \in DOMAIN accounts.data[c].transactions :
           LET stored == accounts.data[c].transactions[id]
           IN /\ stored.operation \in {"Deposit", "Withdrawal"}
              /\ is_some(stored.amount)
              /\ unwrap(stored.amount) >= ZERO
              /\ stored.id = id
              /\ stored.client_id = c
    /\ \A c \in DOMAIN before.data : \A id \in DOMAIN before.data[c].transactions :
           /\ c \in DOMAIN accounts.data
           /\ id \in DOMAIN accounts.data[c].transactions
           /\ accounts.data[c].transactions[id] = before.data[c].transactions[id]
    /\ (Called /\ LastRecord.operation \in {"Dispute", "Resolve", "Chargeback"}) =>
           result.kind \notin {"InvalidOperationUnderDispute", "MissingAmount"}

\* C24 witness: an account stores a Deposit and a Withdrawal, and the
\* Chargeback of the Withdrawal has just read the stored record and succeeded.
WithdrawalChargedBack ==
    /\ Succeeded
    /\ LastRecord.operation = "Chargeback"
    /\ Referenced.operation = "Withdrawal"
    /\ \E id \in DOMAIN AccountAfter.transactions :
           AccountAfter.transactions[id].operation = "Deposit"

\* The sum of the amounts of the stored transactions with the given ids.
RECURSIVE SumOfAmounts(_, _)
SumOfAmounts(account, ids) ==
    IF ids = {}
    THEN ZERO
    ELSE LET id == CHOOSE i \in ids : TRUE
         IN unwrap(account.transactions[id].amount) + SumOfAmounts(account, ids \ {id})

\* C25: in every account under_dispute is a subset of the keys of
\* transactions and held is the sum of the amounts of the stored transactions
\* whose ids are in under_dispute; so held = 0 when under_dispute is empty.
HeldIsSumOfDisputed ==
    \A c \in DOMAIN accounts.data :
        /\ UnderDispute(c) \subseteq DOMAIN accounts.data[c].transactions
        /\ accounts.data[c].held = SumOfAmounts(accounts.data[c], UnderDispute(c))
        /\ UnderDispute(c) = {} => accounts.data[c].held = ZERO

\* C25 witness: a Deposit and a Withdrawal of positive amounts are under
\* dispute in one account at the same time.
TwoHoldsAtOnce ==
    \E c \in DOMAIN accounts.data : \E i, j \in UnderDispute(c) :
        /\ accounts.data[c].transactions[i].operation = "Deposit"
        /\ accounts.data[c].transactions[j].operation = "Withdrawal"
        /\ unwrap(accounts.data[c].transactions[i].amount) > ZERO
        /\ unwrap(accounts.data[c].transactions[j].amount) > ZERO

\* C28 as claimed: in every account available + held lies within the
\* representable range, so the addition that computes total in the report
\* cannot overflow.
TotalIsRepresentable ==
    \A c \in DOMAIN accounts.data :
        InRange(accounts.data[c].available + accounts.data[c].held)

\* The ids of the account of client c whose latest successful Dispute, Resolve
\* or Chargeback was a Chargeback.
ChargedBack(c) == {id \in TransactionIds : latest[<< c, id >>] = "Chargeback"}

\* C29: an account is locked exactly when a Chargeback succeeded on it;
\* the account a call creates is unlocked; the only call that changes locked
\* is a successful Chargeback, which finds the account unlocked and leaves it
\* locked; so no account has seen more than one successful Chargeback.
LockedIffChargedBack ==
    /\ \A c \in DOMAIN accounts.data :
           /\ accounts.data[c].locked <=> ChargedBack(c) # {}
           /\ Cardinality(ChargedBack(c)) <= 1
    /\ Called =>
           /\ Target \notin DOMAIN before.data => ~AccountBefore.locked
           /\ AccountAfter.locked # AccountBefore.locked =>
                  /\ Succeeded
                  /\ LastRecord.operation = "Chargeback"
           /\ (Succeeded /\ LastRecord.operation = "Chargeback") =>
                  /\ ~AccountBefore.locked
                  /\ AccountAfter.locked
                  /\ ChargedBack(Target) = {LastRecord.id}
           /\ (Failed \/ LastRecord.operation # "Chargeback") =>
                  AccountAfter.locked = AccountBefore.locked

\* C29 witness: on an account that the Chargeback of a Deposit of a positive
\* amount locked, a second Chargeback of the same id has just been refused.
SecondChargebackRefused ==
    /\ Failed
    /\ LastRecord.operation = "Chargeback"
    /\ AccountBefore.locked
    /\ LastRecord.id \in ChargedBack(Target)
    /\ Referenced.operation = "Deposit"
    /\ ReferencedAmount > ZERO
    /\ AccountAfter.locked

\* The latest call was a Deposit or a Withdrawal rejected for a reason other
\* than a duplicated id.
Rejected ==
    /\ Called
    /\ LastRecord.operation \in {"Deposit", "Withdrawal"}
    /\ result.kind \in {"AccountLocked", "MissingAmount", "NegativeAmount",
                        "InsufficientFounds", "Overflow", "Underflow"}
\* The Deposits and Withdrawals that carry the client and the id of the
\* latest record.
Retries ==
    {t \in Transaction : /\ t.operation \in {"Deposit", "Withdrawal"}
                         /\ t.client_id = Target
                         /\ t.id = LastRecord.id}

\* C26 as claimed: after a Deposit or Withdrawal rejected with AccountLocked,
\* MissingAmount, NegativeAmount, InsufficientFounds, Overflow or Underflow
\* its id is absent from transactions, a later Deposit or Withdrawal with that
\* id on the account, if unlocked, is not a DuplicatedTransaction, and a
\* Dispute of the id (given to operation_dispute) fails with
\* MissingTransaction.
RejectedIdIsAbsent ==
    Rejected =>
        /\ ~Stored(AccountAfter, LastRecord.id)
        /\ ~AccountAfter.locked =>
               \A t \in Retries :
                   process_one(accounts, t).result.kind # "DuplicatedTransaction"
        /\ operation_dispute(AccountAfter, DisputeOf(Target, LastRecord.id)).result
               = MissingTransaction(LastRecord.id)

\* C26 amended: a rejected Deposit or Withdrawal leaves the transactions store
\* as it was.  Rejected with MissingAmount, NegativeAmount, InsufficientFounds,
\* Overflow or Underflow, its id was not stored and is not stored afterwards:
\* a later Deposit or Withdrawal with that id is not a DuplicatedTransaction
\* and a Dispute of it returns MissingTransaction.  Rejected with
\* AccountLocked, its id is stored afterwards exactly if it was stored before,
\* and a Dispute of it returns AccountLocked.
RejectedRecordStoresNothing ==
    Rejected =>
        /\ AccountAfter.transactions = AccountBefore.transactions
        /\ result.kind # "AccountLocked" =>
               /\ ~Stored(AccountBefore, LastRecord.id)
               /\ ~Stored(AccountAfter, LastRecord.id)
               /\ \A t \in Retries :
                      process_one(accounts, t).result.kind # "DuplicatedTransaction"
               /\ process_one(accounts, DisputeOf(Target, LastRecord.id)).result
                      = MissingTransaction(LastRecord.id)
        /\ result.kind = "AccountLocked" =>
               /\ AccountAfter.locked
               /\ process_one(accounts, DisputeOf(Target, LastRecord.id)).result
                      = AccountLocked(Target)

\* C26 witness: a Withdrawal has just been rejected with InsufficientFounds
\* and a Deposit with the same id would now succeed.
RejectedIdStillFree ==
    /\ Rejected
    /\ LastRecord.operation = "Withdrawal"
    /\ result.kind = "InsufficientFounds"
    /\ \E t \in Retries :
           /\ t.operation = "Deposit"
           /\ process_one(accounts, t).result = NoError
           /\ Stored(process_one(accounts, t).accounts.data[Target], LastRecord.id)

MaxCycles == 3

\* n times in a row, a Dispute and then a Resolve of the transaction id of
\* client c, starting from the ledger map, all succeed.
RECURSIVE CyclesSucceed(_, _, _, _)
CyclesSucceed(map, c, id, n) ==
    IF n = 0
    THEN TRUE
    ELSE LET disputed == process_one(map, DisputeOf(c, id))
             resolved == process_one(disputed.accounts, ResolveOf(c, id))
         IN /\ disputed.result = NoError
            /\ resolved.result = NoError
            /\ CyclesSucceed(resolved.accounts, c, id, n - 1)

\* The same n cycles, where every Dispute succeeds and a Resolve either
\* succeeds or, when available plus the amount is not representable, returns
\* Overflow and leaves the transaction under dispute.
RECURSIVE CyclesStopOnlyOnOverflow(_, _, _, _)
CyclesStopOnlyOnOverflow(map, c, id, n) ==
    IF n = 0
    THEN TRUE
    ELSE LET disputed == process_one(map, DisputeOf(c, id))
             resolved == process_one(disputed.accounts, ResolveOf(c, id))
             account == disputed.accounts.data[c]
             amount == unwrap(account.transactions[id].amount)
         IN /\ disputed.result = NoError
            /\ id \in account.under_dispute
            /\ IF InRange(account.available + amount)
               THEN /\ resolved.result = NoError
                    /\ CyclesStopOnlyOnOverflow(resolved.accounts, c, id, n - 1)
               ELSE /\ resolved.result = Overflow(id)
                    /\ resolved.accounts = disputed.accounts

\* C27 as claimed: after a successful Resolve a new Dispute of the same
\* transaction succeeds and the Dispute/Resolve cycle repeats any number of
\* times (here: up to MaxCycles); after a successful Chargeback the account is
\* locked and a Dispute is refused.
LifecycleRepeatsWithoutLimit ==
    /\ (Succeeded /\ LastRecord.operation = "Resolve") =>
           \A n \in 1..MaxCycles : CyclesSucceed(accounts, Target, LastRecord.id, n)
    /\ (Succeeded /\ LastRecord.operation = "Chargeback") =>
           /\ AccountAfter.locked
           /\ process_one(accounts, DisputeOf(Target, LastRecord.id)).result
                  = AccountLocked(Target)

\* C27 amended: after a successful Resolve a new Dispute of the same
\* transaction succeeds (it is not a DuplicatedDispute).  For a Deposit the
\* cycle repeats any number of times and returns the ledger to the same state.
\* For a Withdrawal every cycle leaves available higher by the amount, so the
\* cycle repeats until a Resolve returns Overflow; the transaction is then
\* still under dispute.  After a successful Chargeback the account is locked
\* and a Dispute is refused with AccountLocked.
LifecycleIsReenterable ==
    /\ (Succeeded /\ LastRecord.operation = "Resolve") =>
           LET again == process_one(accounts, DisputeOf(Target, LastRecord.id))
           IN /\ ~AccountAfter.locked
              /\ again.result = NoError
              /\ LastRecord.id \in again.accounts.data[Target].under_dispute
              /\ \A n \in 1..MaxCycles :
                     CyclesStopOnlyOnOverflow(accounts, Target, LastRecord.id, n)
              /\ Referenced.operation = "Deposit" =>
                     /\ \A n \in 1..MaxCycles :
                            CyclesSucceed(accounts, Target, LastRecord.id, n)
                     /\ process_one(again.accounts,
                                    ResolveOf(Target, LastRecord.id)).accounts = accounts
    /\ (Succeeded /\ LastRecord.operation = "Chargeback") =>
           /\ AccountAfter.locked
           /\ process_one(accounts, DisputeOf(Target, LastRecord.id)).result
                  = AccountLocked(Target)

\* C27 witness: a Withdrawal of a positive amount has just been resolved; one
\* more Dispute/Resolve cycle succeeds, and in the one after that the Dispute
\* succeeds and the Resolve overflows.
SecondCycleOverflows ==
    /\ Succeeded
    /\ LastRecord.operation = "Resolve"
    /\ Referenced.operation = "Withdrawal"
    /\ ReferencedAmount > ZERO
    /\ CyclesSucceed(accounts, Target, LastRecord.id, 1)
    /\ ~CyclesSucceed(accounts, Target, LastRecord.id, 2)

====
